---- MODULE Spec2Model ----
(***************************************************************************)
(* Submission reconciliation of the KoboToolbox sync service: the webhook  *)
(* receiver, the fetch_kobo_data command, the UI sync and the paginated    *)
(* client, over the KoboSubmission table.                                  *)
(***************************************************************************)
EXTENDS Integers, Sequences, FiniteSets, TLC

VARIABLES
    store,      \* the KoboSubmission table: a set of rows (aware: whether the
                \* stored date_submitted carries a time zone)
    now,        \* the wall clock read by timezone.now(), in hours
    tz,         \* UTC offset of the server's default time zone (settings.TIME_ZONE)
    last,       \* what the most recent operation answered (response / summary)
    pc,         \* concurrent webhook handlers: position of each handler
    req,        \* concurrent webhook handlers: payload being processed
    resp,       \* concurrent webhook handlers: response given
    pg          \* get_all_submissions: the loop's state; in a command run
                \* followed request by request, the run's state as well

vars == <<store, now, tz, last, pc, req, resp, pg>>

-----------------------------------------------------------------------------
(* Bounds *)

\* number of clock ticks a behaviour may take
MaxClock == 1
\* longest list of submissions the server returns to one batch or UI sync
MaxFetch == 2
\* number of webhook deliveries handled at the same time
NumProcs == 2
\* the largest form paged through holds MaxPages full pages and a part of one
MaxPages == 3

-----------------------------------------------------------------------------
(* Values *)

\* UTC offsets the deployment's TIME_ZONE setting may have: UTC, Asia/Dhaka
ServerZones == {0, 6}

\* dict.get of a missing key
None == "None"

\* "if uuid is None" in place of "if not uuid": the empty string passes
NotNone(v) == v # None

\* Python truthiness of a string-or-None value
Truthy(v) == v # None /\ v # ""

\* _submission_time strings; all well-formed ones name wall-clock hour 12
TimeZ == "2025-01-01T12:00:00Z"
TimeNaive == "2025-01-01T12:00:00"
TimeBad == "not-a-date"
TimeStrings == {None, "", TimeBad, TimeNaive, TimeZ}

\* the submission every other modelled submission differs from in one respect
\* (the test suite's sample payload)
BaseSubmission ==
    [_uuid |-> "u1", _xform_id_string |-> "f1", formid |-> "f2",
     _submission_time |-> TimeZ, q |-> "a"]

\* payloads a webhook delivery may carry: the base submission with its uuid,
\* its form fields, its timestamp or its answer changed
Payloads ==
    {[BaseSubmission EXCEPT !._uuid = u] : u \in {None, "", "u1", "u2"}}
    \cup {[BaseSubmission EXCEPT !._xform_id_string = x, !.formid = f] :
            x \in {None, "", "f1"}, f \in {None, "", "f2"}}
    \cup {[BaseSubmission EXCEPT !._submission_time = s] : s \in TimeStrings}
    \cup {[BaseSubmission EXCEPT !.q = a] : a \in {"a", "b"}}

\* submissions the remote server may hold for the fetched form
ServerRecords ==
    {[BaseSubmission EXCEPT !._uuid = u] : u \in {None, "", "u1", "u2"}}
    \cup {[BaseSubmission EXCEPT !._submission_time = s] : s \in {TimeNaive, TimeBad}}
    \cup {[BaseSubmission EXCEPT !.q = a] : a \in {"a", "b"}}

-----------------------------------------------------------------------------
(* Timestamp handling *)

\* submission_time_str.replace("Z", "+00:00")
ReplaceZ(s) == IF s = TimeZ THEN "2025-01-01T12:00:00+00:00" ELSE s

\* datetime.fromisoformat: wall-clock hour and UTC offset (None when naive);
\* ok = FALSE stands for ValueError
FromIsoFormat(s) ==
    CASE s = "2025-01-01T12:00:00+00:00" -> [ok |-> TRUE, wall |-> 12, naive |-> FALSE, off |-> 0]
      [] s = TimeNaive -> [ok |-> TRUE, wall |-> 12, naive |-> TRUE, off |-> 0]
      [] OTHER -> [ok |-> FALSE, wall |-> 0, naive |-> TRUE, off |-> 0]

\* the instant (hours, UTC) of an aware datetime
Instant(dt) == dt.wall - dt.off

\* datetime.now() in place of timezone.now(): no tzinfo
NowNaive(t) == [ok |-> TRUE, wall |-> t, naive |-> TRUE, off |-> 0]

\* timezone.now(): the current time as an aware datetime, in UTC
Now(t) == [ok |-> TRUE, wall |-> t, naive |-> FALSE, off |-> 0]

\* views.py: naive datetimes are taken as UTC, then shown in Asia/Dhaka
\* (astimezone keeps the instant); absent, empty and unparseable strings
\* give the current time
WebhookDateTime(s, t) ==
    IF Truthy(s)
    THEN LET dt == FromIsoFormat(ReplaceZ(s))
         IN  IF dt.ok
             THEN IF dt.naive THEN [dt EXCEPT !.naive = FALSE, !.off = 0] ELSE dt
             ELSE Now(t)
    ELSE Now(t)

WebhookDate(s, t) == Instant(WebhookDateTime(s, t))

\* fetch_kobo_data.py: naive datetimes are made aware in the server's time zone
BatchDateTime(s, t, zone) ==
    IF Truthy(s)
    THEN LET dt == FromIsoFormat(ReplaceZ(s))
         IN  IF dt.ok
             THEN IF dt.naive THEN [dt EXCEPT !.naive = FALSE, !.off = zone] ELSE dt
             ELSE Now(t)
    ELSE Now(t)

BatchDate(s, t, zone) == Instant(BatchDateTime(s, t, zone))

\* the two payload fields consulted in the other order
FormidFirst(p) ==
    IF Truthy(p.formid) THEN p.formid
    ELSE IF Truthy(p._xform_id_string) THEN p._xform_id_string
    ELSE "unknown"

\* form_uid of a webhook payload
WebhookFormUid(p) ==
    IF Truthy(p._xform_id_string) THEN p._xform_id_string
    ELSE IF Truthy(p.formid) THEN p.formid
    ELSE "unknown"

-----------------------------------------------------------------------------
(* The KoboSubmission table *)

\* the column without unique=True
NoUniqueIndex == FALSE

\* uuid = models.CharField(..., unique=True)
UniqueUuid == TRUE

Matching(st, u) == {r \in st : r.uuid = u}

Uuids(st) == {r.uuid : r \in st}

\* the row is keyed on the form uid of the defaults
NewRowKeyedOnForm(st, u, d, t) ==
    [id |-> Cardinality(st) + 1, uuid |-> d.form_uid, form_uid |-> d.form_uid,
     data |-> d.data, date_submitted |-> d.date_submitted, aware |-> d.aware,
     date_synced |-> t, date_updated |-> t]

NewRow(st, u, d, t) ==
    [id |-> Cardinality(st) + 1, uuid |-> u, form_uid |-> d.form_uid, data |-> d.data,
     date_submitted |-> d.date_submitted, aware |-> d.aware,
     date_synced |-> t, date_updated |-> t]

\* INSERT: the unique index refuses a second row with the same uuid
DbInsert(st, row) ==
    IF UniqueUuid /\ Matching(st, row.uuid) # {}
    THEN [ok |-> FALSE, store |-> st]
    ELSE [ok |-> TRUE, store |-> st \cup {row}]

\* date_synced declared auto_now: every save refreshes it
DbSaveResetsSynced(st, row, d, t) ==
    (st \ {row}) \cup
        {[row EXCEPT !.form_uid = d.form_uid, !.data = d.data,
                     !.date_submitted = d.date_submitted, !.aware = d.aware,
                     !.date_synced = t, !.date_updated = t]}

\* obj.save() of a fetched row with the defaults applied; auto_now refreshes
\* date_updated, date_synced (auto_now_add) is left alone
DbSave(st, row, d, t) ==
    (st \ {row}) \cup
        {[row EXCEPT !.form_uid = d.form_uid, !.data = d.data,
                     !.date_submitted = d.date_submitted, !.aware = d.aware,
                     !.date_updated = t]}

\* a mis-keyed reconciliation: every call inserts a fresh row
InsertOnly(st, u, d, t) ==
    [store |-> st \cup {NewRow(st, u, d, t)}, created |-> TRUE, error |-> FALSE]

\* KoboSubmission.objects.update_or_create(uuid=u, defaults=d) run alone:
\* get, else create; an existing row gets the defaults and is saved
UpdateOrCreate(st, u, d, t) ==
    LET found == Matching(st, u)
    IN  IF found = {}
        THEN LET ins == DbInsert(st, NewRow(st, u, d, t))
             IN  [store |-> ins.store, created |-> ins.ok, error |-> ~ins.ok]
        ELSE IF Cardinality(found) > 1
        THEN [store |-> st, created |-> FALSE, error |-> TRUE]
        ELSE [store |-> DbSave(st, CHOOSE r \in found : TRUE, d, t),
              created |-> FALSE, error |-> FALSE]

-----------------------------------------------------------------------------
(* Webhook receiver *)

\* a handler that works through a fetched list is between two records; in
\* Spec the entry points run one after another, so nothing else starts then
Running == last.op \in {"batch", "ui"} /\ last.phase = "run"

\* defaults whose date_submitted is taken once, when the row does not exist yet
\* (the stored value is kept on update)
DefaultsKeepDate(p, t) ==
    [form_uid |-> WebhookFormUid(p), data |-> p,
     date_submitted |->
        IF Matching(store, p._uuid) # {}
        THEN (CHOOSE r \in Matching(store, p._uuid) : TRUE).date_submitted
        ELSE WebhookDate(p._submission_time, t),
     aware |-> ~WebhookDateTime(p._submission_time, t).naive]

WebhookDefaults(p, t) ==
    [form_uid |-> WebhookFormUid(p), data |-> p,
     date_submitted |-> WebhookDate(p._submission_time, t),
     aware |-> ~WebhookDateTime(p._submission_time, t).naive]

\* the two outcomes answered with each other's status
ResponseSwapped(u, created) ==
    [op |-> "webhook", phase |-> "done", status |-> IF created THEN 200 ELSE 201,
     action |-> IF created THEN "created" ELSE "updated", uuid |-> u]

WebhookResponse(u, created) ==
    [op |-> "webhook", phase |-> "done", status |-> IF created THEN 201 ELSE 200,
     action |-> IF created THEN "created" ELSE "updated", uuid |-> u]

BadRequest ==
    [op |-> "webhook", phase |-> "done", status |-> 400,
     error |-> "Missing _uuid in payload"]

ServerError == [op |-> "webhook", phase |-> "done", status |-> 500]

\* the exchange as observed: the response, the request it answers, and whether
\* that request repeats the one whose post has just created the row
Exchange(p, response) ==
    response @@ [request |-> p,
                 again |-> last.op = "webhook" /\ last.status = 201 /\ last.request = p]

\* KoboWebhookView.post
WebhookPost(p) ==
    /\ ~Running
    /\ IF ~Truthy(p._uuid)
       THEN /\ last' = Exchange(p, BadRequest)
            /\ store' = store
       ELSE \E r \in {UpdateOrCreate(store, p._uuid, WebhookDefaults(p, now), now)} :
                /\ store' = r.store
                /\ last' = Exchange(p, IF r.error THEN ServerError
                                       ELSE WebhookResponse(p._uuid, r.created))
    /\ UNCHANGED <<now, tz, pc, req, resp, pg>>

-----------------------------------------------------------------------------
(* Remote API client *)

\* get_all_submissions: limit = 1000
PageLimit == 1000

Min(a, b) == IF a < b THEN a ELSE b

\* the server's answer to GET .../data/?start=&limit= : the slice
\* [start, start+limit) of the submissions it holds (limit 0: no limit sent)
GetSubmissions(server, limit, start) ==
    IF start >= Len(server) THEN <<>>
    ELSE SubSeq(server, start + 1,
                IF limit = 0 THEN Len(server) ELSE Min(start + limit, Len(server)))

-----------------------------------------------------------------------------
(* fetch_kobo_data command *)

BatchDefaults(form_uid, sub, t, zone) ==
    [form_uid |-> form_uid, data |-> sub,
     date_submitted |-> BatchDate(sub._submission_time, t, zone),
     aware |-> ~BatchDateTime(sub._submission_time, t, zone).naive]

\* the write the command makes for a record that has a uuid
BatchWrite(st, form_uid, sub, force, t, zone) ==
    UpdateOrCreate(st, sub._uuid, BatchDefaults(form_uid, sub, t, zone), t)

\* "elif force_update" dropped: an existing record always counts as updated
CountExistingUpdated(job, created) ==
    IF created THEN [job EXCEPT !.created = @ + 1]
    ELSE [job EXCEPT !.updated = @ + 1]

\* no "else" branch: an existing record is counted only under --force-update
BatchCountNoElse(job, created) ==
    IF created THEN [job EXCEPT !.created = @ + 1]
    ELSE IF job.force THEN [job EXCEPT !.updated = @ + 1]
    ELSE job

\* created_count / updated_count / skipped_count after one record
BatchCount(job, created) ==
    IF created THEN [job EXCEPT !.created = @ + 1]
    ELSE IF job.force THEN [job EXCEPT !.updated = @ + 1]
    ELSE [job EXCEPT !.skipped = @ + 1]

CommandError(msg) == [op |-> "batch", phase |-> "failed", error |-> msg]

\* Command.handle up to the loop: configuration, client construction and the
\* fetch (limit 0 stands for no --limit); fetched counts the records the loop
\* has been handed so far, cap the most the fetch can hold. pre and rows0
\* remember the stored uuids and the row count the run started from, miss counts
\* the fetched records whose uuid was not among them, seen collects the uuids
\* of the records handled
BatchBegin ==
    /\ ~Running
    /\ \E form_uid \in {None, "f9"}, token \in {"", "tok"} :
        IF ~Truthy(form_uid) THEN last' = CommandError("Form UID is required")
        ELSE IF ~Truthy(token) THEN last' = CommandError("KOBO_TOKEN must be provided")
        ELSE \E fetchOk \in BOOLEAN :
            IF ~fetchOk THEN last' = CommandError("Failed to fetch submissions")
            ELSE \E limit \in {0, 1}, force \in BOOLEAN :
                    last' = [op |-> "batch", phase |-> "run", form_uid |-> form_uid,
                             force |-> force,
                             cap |-> IF limit # 0 THEN Min(limit, MaxFetch) ELSE MaxFetch,
                             pre |-> Uuids(store), rows0 |-> Cardinality(store),
                             miss |-> 0, fetched |-> 0, seen |-> {},
                             created |-> 0, updated |-> 0, skipped |-> 0]
    /\ UNCHANGED <<store, now, tz, pc, req, resp, pg>>

\* one pass of "for submission in submissions" over the next fetched record
BatchRecord(sub) ==
    /\ Running /\ last.op = "batch"
    /\ last.fetched < last.cap
    /\ IF ~Truthy(sub._uuid)
       THEN /\ last' = [last EXCEPT !.fetched = @ + 1, !.miss = @ + 1, !.skipped = @ + 1]
            /\ store' = store
       ELSE \E r \in {BatchWrite(store, last.form_uid, sub, last.force, now, tz)} :
                /\ store' = r.store
                /\ last' = IF r.error THEN CommandError("crashed")
                           ELSE BatchCount(
                                    [last EXCEPT !.fetched = @ + 1,
                                                 !.seen = @ \cup {sub._uuid},
                                                 !.miss = IF sub._uuid \in last.pre
                                                          THEN @ ELSE @ + 1],
                                    r.created)
    /\ UNCHANGED <<now, tz, pc, req, resp, pg>>

\* the fetched list is exhausted: the summary is written
BatchEnd ==
    /\ Running /\ last.op = "batch"
    /\ last' = [last EXCEPT !.phase = "done"]
    /\ UNCHANGED <<store, now, tz, pc, req, resp, pg>>

-----------------------------------------------------------------------------
(* UI sync: view_submissions_view with ?sync=true *)

UiDefaults(form_uid, sub, t) ==
    [form_uid |-> form_uid, data |-> sub,
     date_submitted |-> WebhookDate(sub._submission_time, t),
     aware |-> ~WebhookDateTime(sub._submission_time, t).naive]

SyncError(msg) == [op |-> "ui", phase |-> "failed", error |-> msg]

UiBegin ==
    /\ ~Running
    /\ \E form_uid \in {None, "f9"}, token \in {"", "tok"} :
        IF ~Truthy(form_uid) THEN last' = SyncError("KOBO_FORM_UID not configured")
        ELSE IF ~Truthy(token) THEN last' = SyncError("Sync failed")
        ELSE \E fetchOk \in BOOLEAN :
            IF ~fetchOk THEN last' = SyncError("Sync failed")
            ELSE last' = [op |-> "ui", phase |-> "run", form_uid |-> form_uid,
                          cap |-> MaxFetch, pre |-> Uuids(store), fetched |-> 0,
                          created |-> 0, updated |-> 0]
    /\ UNCHANGED <<store, now, tz, pc, req, resp, pg>>

UiRecord(sub) ==
    /\ Running /\ last.op = "ui"
    /\ last.fetched < last.cap
    /\ IF ~Truthy(sub._uuid)
       THEN /\ last' = [last EXCEPT !.fetched = @ + 1]
            /\ store' = store
       ELSE \E r \in {UpdateOrCreate(store, sub._uuid,
                                     UiDefaults(last.form_uid, sub, now), now)} :
                /\ store' = r.store
                /\ last' = IF r.error THEN SyncError("Sync failed")
                           ELSE IF r.created
                           THEN [last EXCEPT !.fetched = @ + 1, !.created = @ + 1]
                           ELSE [last EXCEPT !.fetched = @ + 1, !.updated = @ + 1]
    /\ UNCHANGED <<now, tz, pc, req, resp, pg>>

UiEnd ==
    /\ Running /\ last.op = "ui"
    /\ last' = [last EXCEPT !.phase = "done"]
    /\ UNCHANGED <<store, now, tz, pc, req, resp, pg>>

\* time passes
Tick ==
    /\ now < 24 + MaxClock
    /\ now' = now + 1
    /\ UNCHANGED <<store, tz, last, pc, req, resp, pg>>

Init ==
    /\ store = {}
    /\ now = 24
    /\ tz \in ServerZones
    /\ last = [op |-> "none", phase |-> "done"]
    /\ pc = <<>>
    /\ req = <<>>
    /\ resp = <<>>
    /\ pg = <<>>

Next ==
    \/ Tick
    \/ \E p \in Payloads : WebhookPost(p)
    \/ BatchBegin
    \/ \E sub \in ServerRecords : BatchRecord(sub)
    \/ BatchEnd
    \/ UiBegin
    \/ \E sub \in ServerRecords : UiRecord(sub)
    \/ UiEnd

Spec == Init /\ [][Next]_vars

-----------------------------------------------------------------------------
(* Webhook deliveries handled at the same time: update_or_create runs as    *)
(* get, then INSERT, then (when the INSERT hits the unique index) get again, *)
(* then save; each statement is one step.                                    *)

Procs == 1..NumProcs

ConcPayloads ==
    {[BaseSubmission EXCEPT !._uuid = u] : u \in {None, "", "u1", "u2"}}
    \cup {[BaseSubmission EXCEPT !.q = a] : a \in {"a", "b"}}

Idle == [status |-> 0]

\* the handler takes the request: the uuid check, form_uid and the timestamp
Receive(h, p) ==
    /\ pc[h] = "idle"
    /\ req' = [req EXCEPT ![h] = [payload |-> p, defaults |-> WebhookDefaults(p, now), obj |-> 0]]
    /\ IF ~Truthy(p._uuid)
       THEN pc' = [pc EXCEPT ![h] = "done"] /\ resp' = [resp EXCEPT ![h] = BadRequest]
       ELSE pc' = [pc EXCEPT ![h] = "get"] /\ resp' = resp
    /\ UNCHANGED <<store, now, tz, last, pg>>

\* where a lookup by uuid leads: nothing found, one row, or several (an error)
Lookup(h, none) ==
    LET found == Matching(store, req[h].payload._uuid)
    IN  IF found = {} THEN none
        ELSE IF Cardinality(found) > 1
        THEN /\ pc' = [pc EXCEPT ![h] = "done"]
             /\ resp' = [resp EXCEPT ![h] = ServerError]
             /\ req' = req
        ELSE /\ pc' = [pc EXCEPT ![h] = "save"]
             /\ req' = [req EXCEPT ![h].obj = (CHOOSE r \in found : TRUE).id]
             /\ resp' = resp

\* get_or_create: self.get(uuid=...)
TxGet(h) ==
    /\ pc[h] = "get"
    /\ Lookup(h, pc' = [pc EXCEPT ![h] = "create"] /\ UNCHANGED <<req, resp>>)
    /\ UNCHANGED <<store, now, tz, last, pg>>

\* get_or_create: self.create(...); IntegrityError leads to the second get
TxCreate(h) ==
    /\ pc[h] = "create"
    /\ \E ins \in {DbInsert(store, NewRow(store, req[h].payload._uuid, req[h].defaults, now))} :
        IF ins.ok
        THEN /\ store' = ins.store
             /\ pc' = [pc EXCEPT ![h] = "done"]
             /\ resp' = [resp EXCEPT ![h] = WebhookResponse(req[h].payload._uuid, TRUE)]
        ELSE /\ store' = store
             /\ pc' = [pc EXCEPT ![h] = "reget"]
             /\ resp' = resp
    /\ UNCHANGED <<now, tz, last, req, pg>>

\* get_or_create after IntegrityError: self.get(uuid=...) again, else re-raise
TxReget(h) ==
    /\ pc[h] = "reget"
    /\ Lookup(h, /\ pc' = [pc EXCEPT ![h] = "done"]
                 /\ resp' = [resp EXCEPT ![h] = ServerError]
                 /\ req' = req)
    /\ UNCHANGED <<store, now, tz, last, pg>>

\* update_or_create: the defaults are set on the fetched row and it is saved
TxSave(h) ==
    /\ pc[h] = "save"
    /\ \E row \in {r \in store : r.id = req[h].obj} :
          store' = DbSave(store, row, req[h].defaults, now)
    /\ pc' = [pc EXCEPT ![h] = "done"]
    /\ resp' = [resp EXCEPT ![h] = WebhookResponse(req[h].payload._uuid, FALSE)]
    /\ UNCHANGED <<now, tz, last, req, pg>>

InitConc ==
    /\ store = {}
    /\ now = 24
    /\ tz \in ServerZones
    /\ last = [op |-> "none", phase |-> "done"]
    /\ pc = [h \in Procs |-> "idle"]
    /\ req = [h \in Procs |-> [payload |-> BaseSubmission,
                               defaults |-> WebhookDefaults(BaseSubmission, 24), obj |-> 0]]
    /\ resp = [h \in Procs |-> Idle]
    /\ pg = <<>>

NextConc ==
    \E h \in Procs :
        \/ \E p \in ConcPayloads : Receive(h, p)
        \/ TxGet(h)
        \/ TxCreate(h)
        \/ TxReget(h)
        \/ TxSave(h)

SpecConc == InitConc /\ [][NextConc]_vars

-----------------------------------------------------------------------------
(* get_all_submissions against a server that holds n submissions *)

PageOffsets == {0, 1, 2, 499, 500, 501, 997, 998, 999}

PageNs == {k * PageLimit + d : k \in 0..MaxPages, d \in PageOffsets}

\* the server's submissions, numbered in the order it serves them
Server(n) == [i \in 1..n |-> i]

\* "if len(batch) < limit: break" reads a full page as "go on"
PageShortOrFull(batch) == Len(batch) <= PageLimit

\* "if len(batch) < limit - 1: break" takes a page of limit - 1 records for a
\* full one
PageShortByTwo(batch) == Len(batch) < PageLimit - 1

\* if len(batch) < limit: break
PageShort(batch) == Len(batch) < PageLimit

\* one pass of the "while True" loop: the request, then the two breaks; log
\* records each request made and the page it returned
PageRequest ==
    /\ pg.pc = "loop"
    /\ \E batch \in {GetSubmissions(Server(pg.n), PageLimit, pg.start)} :
        LET entry == [start |-> pg.start, limit |-> PageLimit, page |-> batch]
        IN  IF batch = <<>>
            THEN pg' = [pg EXCEPT !.log = Append(@, entry), !.pc = "done"]
            ELSE pg' = [pg EXCEPT !.log = Append(@, entry),
                                  !.all = @ \o batch,
                                  !.start = @ + PageLimit,
                                  !.pc = IF PageShort(batch) THEN "done" ELSE "loop"]
    /\ UNCHANGED <<store, now, tz, last, pc, req, resp>>

InitPage ==
    /\ store = {}
    /\ now = 24
    /\ tz \in ServerZones
    /\ last = [op |-> "none", phase |-> "done"]
    /\ pc = <<>>
    /\ req = <<>>
    /\ resp = <<>>
    /\ pg \in [n : PageNs, start : {0}, all : {<<>>}, log : {<<>>}, pc : {"loop"}]

NextPage == PageRequest

SpecPage == InitPage /\ [][NextPage]_vars

\* get_all_submissions keeps running: a pass of its loop that can be made is made
SpecPageFair == SpecPage /\ WF_vars(PageRequest)

-----------------------------------------------------------------------------
(* fetch_kobo_data without --limit, request by request: the client is built,
   the form details, the count and the pages are requested, and the fetched
   list is handed to the record loop.  pg holds the run: the fields of the
   pagination loop, the server's size n, the store before the run (store0),
   the requests issued besides the logged page requests (issued), whether the
   form details request failed (warned) and whether a submissions request
   failed (failed) *)

\* a row the table may hold before the run
StoredBefore ==
    UpdateOrCreate({}, "u1", [form_uid |-> "f9", data |-> BaseSubmission,
                              date_submitted |-> 12, aware |-> TRUE], 24).store

\* the token check passes whatever the token
TokenNeverMissing(token) == FALSE

\* KoboToolboxClient.__init__: if not self.token: raise ValueError
TokenMissing(token) == ~Truthy(token)

\* the loop swallows the failure and returns the pages it has ("except: break")
ReturnPartial(run) == [run EXCEPT !.pc = "done"]

\* _make_request raises KoboAPIException, which leaves get_submission_count or
\* get_all_submissions (its locals are dropped) and reaches the command's
\* "except Exception"
Raise(run) == [run EXCEPT !.pc = "aborted"]

\* every HTTP request of the run so far
Requests(run) == run.issued + Len(run.log)

\* handle() up to the client: the form uid, the options, KoboToolboxClient()
CmdStart ==
    /\ pg.pc = "start"
    /\ \E form_uid \in {None, "f9"}, token \in {"", "tok"}, force \in BOOLEAN :
        /\ pg' = [pg EXCEPT !.form_uid = form_uid, !.token = token, !.force = force,
                            !.pc = IF Truthy(form_uid) /\ ~TokenMissing(token)
                                   THEN "details" ELSE "aborted"]
        /\ last' = IF ~Truthy(form_uid) THEN CommandError("Form UID is required")
                   ELSE IF TokenMissing(token)
                        THEN CommandError("KOBO_TOKEN must be provided")
                        ELSE last
    /\ UNCHANGED <<store, now, tz, pc, req, resp>>

\* client.get_form_details: a failure is only a warning
CmdDetails ==
    /\ pg.pc = "details"
    /\ \E ok \in BOOLEAN :
        pg' = [pg EXCEPT !.issued = @ + 1, !.warned = ~ok, !.pc = "count"]
    /\ UNCHANGED <<store, now, tz, last, pc, req, resp>>

\* client.get_submission_count succeeds; get_all_submissions is entered
CmdCount ==
    /\ pg.pc = "count"
    /\ pg' = [pg EXCEPT !.issued = @ + 1, !.pc = "loop"]
    /\ UNCHANGED <<store, now, tz, last, pc, req, resp>>

\* the count request or a page request fails: transport error, non-2xx
\* status or a body that is not JSON
CmdRequestFails ==
    /\ pg.pc \in {"count", "loop"}
    /\ \E run \in {Raise([pg EXCEPT !.issued = @ + 1, !.failed = TRUE])} :
        /\ pg' = run
        /\ last' = IF run.pc = "aborted"
                   THEN CommandError("Failed to fetch submissions")
                   ELSE last
    /\ UNCHANGED <<store, now, tz, pc, req, resp>>

\* get_all_submissions has returned: the record loop starts on the list, which
\* is followed for its first MaxFetch records
CmdLoop ==
    /\ pg.pc = "done"
    /\ last' = [op |-> "batch", phase |-> "run", form_uid |-> pg.form_uid,
                force |-> pg.force, cap |-> Min(Len(pg.all), MaxFetch),
                pre |-> Uuids(store), rows0 |-> Cardinality(store),
                miss |-> 0, fetched |-> 0, seen |-> {},
                created |-> 0, updated |-> 0, skipped |-> 0]
    /\ pg' = [pg EXCEPT !.issued = Requests(pg), !.log = <<>>, !.all = <<>>,
                        !.pc = "sync"]
    /\ UNCHANGED <<store, now, tz, pc, req, resp>>

InitCmd ==
    /\ store \in {{}, StoredBefore}
    /\ now = 24
    /\ tz \in ServerZones
    /\ last = [op |-> "none", phase |-> "done"]
    /\ pc = <<>>
    /\ req = <<>>
    /\ resp = <<>>
    /\ pg \in [n : PageNs, start : {0}, all : {<<>>}, log : {<<>>}, pc : {"start"},
               form_uid : {None}, token : {""}, force : {FALSE},
               store0 : {store}, issued : {0}, warned : {FALSE}, failed : {FALSE}]

NextCmd ==
    \/ CmdStart
    \/ CmdDetails
    \/ CmdCount
    \/ PageRequest
    \/ CmdRequestFails
    \/ CmdLoop
    \/ \E sub \in ServerRecords : BatchRecord(sub)
    \/ BatchEnd

SpecCmd == InitCmd /\ [][NextCmd]_vars

-----------------------------------------------------------------------------
(* Properties *)

\* a payload or fetched record that carries no usable _uuid
MissingUuid(r) == r._uuid = None \/ r._uuid = ""

\* a _submission_time that parses
WellFormedTime(s) == s \in {TimeZ, TimeNaive}

\* the step is WebhookPost(p); the first two conjuncts follow from the third and
\* are put first so that the handler is evaluated for the posted payload only
WebhookStep(p) == last'.op = "webhook" /\ last'.request = p /\ WebhookPost(p)

\* the stored fields a reconciliation writes
Written(r) == <<r.form_uid, r.data, r.date_submitted>>

\* C1: after any sequence of webhook posts, batch runs and UI syncs the table
\* holds at most one row per uuid.
C1_OneRowPerUuid ==
    \A r1, r2 \in store : r1.uuid = r2.uuid => r1 = r2

\* both uuids are stored, and one of them has been reconciled again since
C1_Witness ==
    /\ Uuids(store) = {"u1", "u2"}
    /\ \E r \in store : r.date_synced < r.date_updated

\* first call of a payload on a store without its uuid: created, one row
C2_First(p) ==
    (~MissingUuid(p) /\ Matching(store, p._uuid) = {} /\ WebhookStep(p))
        => /\ last'.status = 201 /\ last'.action = "created"
           /\ Cardinality(Matching(store', p._uuid)) = 1

\* the webhook step that repeats the payload whose post has just created the row
C2_Repeat(p) ==
    /\ ~MissingUuid(p)
    /\ last.op = "webhook" /\ last.status = 201 /\ last.request = p
    /\ WebhookStep(p)

\* C2 as claimed: posting an identical payload a second time reports "updated",
\* leaves one row, and leaves form_uid, data and date_submitted as the first
\* post wrote them, also when _submission_time is absent or malformed.
C2_Original ==
    [][\A p \in Payloads :
        /\ C2_First(p)
        /\ C2_Repeat(p) =>
            /\ last'.status = 200 /\ last'.action = "updated"
            /\ Cardinality(Matching(store', p._uuid)) = 1
            /\ \A r \in Matching(store, p._uuid), r2 \in Matching(store', p._uuid) :
                  Written(r2) = Written(r)]_vars

\* C2 amended: posting an identical payload a second time reports "updated" and
\* leaves one row with the same form_uid and data; date_submitted is the same
\* when _submission_time is well-formed, and is the time of the second post
\* when it is absent, empty or malformed.
C2_Idempotent ==
    [][\A p \in Payloads :
        /\ C2_First(p)
        /\ C2_Repeat(p) =>
            /\ last'.status = 200 /\ last'.action = "updated"
            /\ Cardinality(Matching(store', p._uuid)) = 1
            /\ \A r \in Matching(store, p._uuid), r2 \in Matching(store', p._uuid) :
                  /\ r2.form_uid = r.form_uid
                  /\ r2.data = r.data
                  /\ r2.date_submitted =
                        IF WellFormedTime(p._submission_time)
                        THEN r.date_submitted ELSE now]_vars

\* a payload without a usable _submission_time has been posted again, later
C2_Witness ==
    /\ last.op = "webhook" /\ last.status = 200 /\ last.again
    /\ \E r \in store :
          /\ r.uuid = last.uuid
          /\ ~WellFormedTime(last.request._submission_time)
          /\ r.date_synced < r.date_submitted
          /\ r.date_submitted = now

\* C3: a batch run without --force-update leaves every stored row whose uuid it
\* fetches as it was (form_uid, data, date_submitted, date_updated).
C3_NoForceNoOverwrite ==
    [][\A sub \in ServerRecords :
        (Running /\ last.op = "batch" /\ ~last.force /\ ~MissingUuid(sub)
            /\ Matching(store, sub._uuid) # {} /\ BatchRecord(sub))
        => Matching(store', sub._uuid) = Matching(store, sub._uuid)]_vars

\* C4: a record without a usable _uuid changes no stored row: the webhook
\* answers 400 with an error body; batch and UI sync skip it and go on.
C4_MissingUuidRejected ==
    [][/\ \A p \in Payloads :
            (MissingUuid(p) /\ WebhookStep(p))
            => /\ store' = store
               /\ last'.status = 400
               /\ "error" \in DOMAIN last'
       /\ \A sub \in ServerRecords :
            (MissingUuid(sub) /\ BatchRecord(sub))
            => /\ store' = store
               /\ last'.phase = "run"
               /\ last'.skipped = last.skipped + 1
               /\ last'.fetched = last.fetched + 1
               /\ last'.created = last.created /\ last'.updated = last.updated
       /\ \A sub \in ServerRecords :
            (MissingUuid(sub) /\ UiRecord(sub))
            => /\ store' = store
               /\ last'.phase = "run"
               /\ last'.fetched = last.fetched + 1
               /\ last'.created = last.created /\ last'.updated = last.updated]_vars

\* a forced batch run skipped a record (only one without uuid can be skipped
\* then) and created another
C4_Witness ==
    /\ last.op = "batch" /\ last.phase = "done" /\ last.force
    /\ last.skipped = 1 /\ last.created = 1

\* C5: a webhook post with uuid u answers 201 "created" exactly when no row
\* with uuid u was stored before it, 200 "updated" exactly when one was, and
\* echoes u.
C5_WebhookStatus ==
    [][\A p \in Payloads :
        (~MissingUuid(p) /\ WebhookStep(p))
        => LET existed == \E r \in store : r.uuid = p._uuid
           IN  /\ (last'.status = 201 /\ last'.action = "created") <=> ~existed
               /\ (last'.status = 200 /\ last'.action = "updated") <=> existed
               /\ last'.uuid = p._uuid]_vars

\* a post answered 200 "updated" right after the clock moved
C5_Witness ==
    /\ last.op = "webhook" /\ last.status = 200 /\ last.action = "updated"
    /\ \E r \in store : r.uuid = last.uuid /\ r.date_updated = now /\ r.date_synced < now

\* form_uid as the interface states it
C6_FormUid(p) ==
    IF p._xform_id_string \notin {None, ""} THEN p._xform_id_string
    ELSE IF p.formid \notin {None, ""} THEN p.formid
    ELSE "unknown"

\* the normalised submission time: the UTC hour named, else the current time
C6_Date(p) == IF WellFormedTime(p._submission_time) THEN 12 ELSE now

\* C6: after a webhook post with uuid u the row for u holds the whole payload
\* as data, the form_uid derived from it and its normalised submission time,
\* whatever the row held before.
C6_LastWriteWins ==
    [][\A p \in Payloads :
        (~MissingUuid(p) /\ WebhookStep(p))
        => /\ Cardinality(Matching(store', p._uuid)) = 1
           /\ \A r \in Matching(store', p._uuid) :
                 Written(r) = <<C6_FormUid(p), p, C6_Date(p)>>]_vars

\* a post overwrote a row: the row is older than its last write and its
\* form_uid came from formid
C6_Witness ==
    /\ last.op = "webhook" /\ last.status = 200
    /\ \E r \in store :
          /\ r.uuid = last.uuid /\ r.form_uid = "f2"
          /\ r.date_synced < r.date_updated

\* handlers that have answered a request for uuid u
C7_Callers(u) == {h \in Procs : pc[h] = "done" /\ req[h].payload._uuid = u}

\* C7: once all handlers that ran at the same time have answered, every uuid
\* delivered (none was stored before) has exactly one row, exactly one of its
\* callers answered 201 "created", every other 200 "updated", and none failed.
C7_ConcurrentUpsert ==
    (\A h \in Procs : pc[h] = "done")
    => \A u \in {"u1", "u2"} :
          C7_Callers(u) # {}
          => /\ Cardinality(Matching(store, u)) = 1
             /\ Cardinality({h \in C7_Callers(u) : resp[h].status = 201
                                                   /\ resp[h].action = "created"}) = 1
             /\ \A h \in C7_Callers(u) :
                   \/ resp[h].status = 201 /\ resp[h].action = "created"
                   \/ resp[h].status = 200 /\ resp[h].action = "updated"

\* every handler got a delivery for u1 and all have answered
C7_Witness ==
    /\ \A h \in Procs : pc[h] = "done"
    /\ C7_Callers("u1") = Procs

RECURSIVE C9_Concat(_)
C9_Concat(log) ==
    IF log = <<>> THEN <<>> ELSE C9_Concat(SubSeq(log, 1, Len(log) - 1)) \o log[Len(log)].page

\* C9: requests go to offsets 0, 1000, 2000, ... with limit 1000, the result is
\* the pages joined in fetch order, no request follows a page shorter than
\* 1000; a form of 2500 submissions takes three requests (1000, 1000, 500
\* records) and gives 2500 records.
C9_Pagination ==
    /\ \A i \in 1..Len(pg.log) :
          /\ pg.log[i].start = (i - 1) * 1000
          /\ pg.log[i].limit = 1000
          /\ i < Len(pg.log) => Len(pg.log[i].page) = 1000
    /\ pg.all = C9_Concat(pg.log)
    /\ pg.pc = "done" => Len(pg.log[Len(pg.log)].page) < 1000
    /\ (pg.pc = "done" /\ pg.n = 2500)
       => /\ Len(pg.log) = 3
          /\ Len(pg.log[1].page) = 1000
          /\ Len(pg.log[2].page) = 1000
          /\ Len(pg.log[3].page) = 500
          /\ Len(pg.all) = 2500

\* the form of 2500 submissions has been fetched
C9_Witness == pg.pc = "done" /\ pg.n = 2500

\* C8: a batch run without --force-update all of whose fetched records were
\* stored before it reports 0 created, 0 updated, skipped = fetched, and
\* leaves the number of rows as it was.
C8_RerunAllSkipped ==
    (last.op = "batch" /\ last.phase = "done" /\ ~last.force /\ last.miss = 0)
    => /\ last.created = 0
       /\ last.updated = 0
       /\ last.skipped = last.fetched
       /\ Cardinality(store) = last.rows0

\* such a run over two fetched records has finished
C8_Witness ==
    /\ last.op = "batch" /\ last.phase = "done" /\ ~last.force
    /\ last.miss = 0 /\ last.fetched = 2

\* C10: a row keeps the date_synced it was created with through every later
\* operation, a new row gets the current time, and date_synced <= date_updated.
C10_DateSynced ==
    /\ [](\A r \in store : r.date_synced <= r.date_updated)
    /\ [][\A r2 \in store' :
            IF \E r \in store : r.id = r2.id
            THEN \E r \in store : r.id = r2.id /\ r.uuid = r2.uuid
                                  /\ r.date_synced = r2.date_synced
            ELSE r2.date_synced = now]_vars

\* a row created before the last tick was written again by a forced batch run
C10_Witness ==
    /\ last.op = "batch" /\ last.phase = "done" /\ last.force /\ last.updated >= 1
    /\ \E r \in store : r.date_synced < r.date_updated /\ r.form_uid = "f9"

\* the counters of a running job that a handled record can raise
C11_Counted(job) ==
    job.created + job.updated + (IF job.op = "batch" THEN job.skipped ELSE 0)

\* what C11 asks of the row written for record r and of the handler going on
C11_Stored(r) ==
    \A row \in Matching(store', r._uuid) :
        row.date_submitted = now /\ row.aware /\ row.data = r

C12_Utc(s) == FromIsoFormat(ReplaceZ(s)).wall

\* the row of record r after the step holds the UTC reading of its timestamp
C12_StoredUtc(r) ==
    \A row \in Matching(store', r._uuid) :
        row.date_submitted = C12_Utc(r._submission_time)

\* C12: a well-formed _submission_time without a time zone offset is read as
\* UTC by the webhook, by the batch command and by the UI sync alike, so the
\* three store the same date_submitted for it under every server time zone.
C12_NaiveIsUtc ==
    [][/\ \A p \in Payloads :
            (~MissingUuid(p) /\ p._submission_time = TimeNaive /\ WebhookStep(p))
            => C12_StoredUtc(p)
       /\ \A sub \in ServerRecords :
            (/\ Running /\ last.op = "ui"
             /\ ~MissingUuid(sub) /\ sub._submission_time = TimeNaive
             /\ UiRecord(sub))
            => C12_StoredUtc(sub)
       /\ \A sub \in ServerRecords :
            (/\ Running /\ last.op = "batch"
             /\ ~MissingUuid(sub) /\ sub._submission_time = TimeNaive
             /\ BatchRecord(sub))
            => C12_StoredUtc(sub)]_vars

\* C13: when the count request or any page request of a batch run fails, also
\* after earlier pages succeeded, get_all_submissions returns no list, the
\* command ends with "Failed to fetch submissions" and the table is as it was
\* before the run.
C13_FailedFetchAborts ==
    [](pg.failed => /\ pg.pc = "aborted"
                    /\ last = CommandError("Failed to fetch submissions")
                    /\ store = pg.store0)

\* the third page request failed after two full pages, with a row in the table
C13_Witness ==
    /\ pg.failed /\ Len(pg.log) = 2 /\ Len(pg.all) = 2 * PageLimit
    /\ pg.store0 # {} /\ store = pg.store0
    /\ last = CommandError("Failed to fetch submissions")

\* C14: with no token, KoboToolboxClient() fails before any HTTP request: the
\* batch run ends with the configuration error, has issued no request and
\* leaves the table as it was.
C14_NoTokenNoRequest ==
    []((pg.pc # "start" /\ Truthy(pg.form_uid) /\ ~Truthy(pg.token))
        => /\ pg.pc = "aborted"
           /\ last = CommandError("KOBO_TOKEN must be provided")
           /\ Requests(pg) = 0
           /\ store = pg.store0)

\* a run with a form uid and no token has ended, with a row in the table
C14_Witness ==
    /\ pg.pc = "aborted" /\ pg.form_uid = "f9" /\ pg.token = ""
    /\ last = CommandError("KOBO_TOKEN must be provided")
    /\ pg.store0 # {} /\ store = pg.store0

\* the uuids that the step adds to the table
C15_Added == Uuids(store') \ Uuids(store)

\* C15: no webhook, batch or UI sync step deletes a row or changes a row's
\* uuid, so the stored uuids only grow, and a step adds only the uuid of the
\* record it was given.
C15_UuidsOnlyGrow ==
    [][/\ \A row \in store : \E kept \in store' : kept.id = row.id /\ kept.uuid = row.uuid
       /\ \A u \in C15_Added :
            \/ /\ last'.op = "webhook"
               /\ last'.request._uuid = u
               /\ WebhookPost(last'.request)
            \/ /\ Running
               /\ \E sub \in ServerRecords :
                    sub._uuid = u /\ (BatchRecord(sub) \/ UiRecord(sub))]_vars

\* a webhook, then a UI sync that wrote to the same row and has added another
C15_Witness ==
    /\ last.op = "ui" /\ last.phase = "done"
    /\ last.created = 1 /\ last.updated = 1
    /\ last.pre = {"u1"}
    /\ Uuids(store) = {"u1", "u2"}
    /\ \A row \in store : row.uuid = row.data._uuid

\* C16: in a batch run every fetched record is counted exactly once, so
\* created + updated + skipped is the number of records handled, also when a
\* uuid occurs twice in the fetch; updated stays 0 without --force-update; and
\* created is the number of distinct fetched uuids that were not stored before
\* the run.
C16_BatchCounters ==
    (last.op = "batch" /\ last.phase \in {"run", "done"})
    => /\ last.created + last.updated + last.skipped = last.fetched
       /\ (~last.force => last.updated = 0)
       /\ last.created = Cardinality(last.seen \ last.pre)
       /\ (last.phase = "done" => last.fetched <= last.cap)

\* a completed run without --force-update that fetched the same new uuid twice,
\* next to a row stored before
C16_Witness ==
    /\ last.op = "batch" /\ last.phase = "done" /\ ~last.force
    /\ last.fetched = 2 /\ last.created = 1 /\ last.skipped = 1
    /\ last.pre = {"u1"} /\ last.seen = {"u2"}

\* C17: against a server that holds N submissions and serves the slice
\* [start, start + limit), get_all_submissions ends; it ends only on a page of
\* fewer than 1000 records, going on after every full page; and when it has
\* ended it has made N \div 1000 + 1 page requests, the last of them answered
\* by an empty page when N is a multiple of 1000, and returns the N records.
C17_Terminates ==
    /\ <>(pg.pc = "done")
    /\ [][/\ Len(pg'.log) = Len(pg.log) + 1
          /\ (pg'.pc = "done") <=> (Len(pg'.log[Len(pg'.log)].page) < PageLimit)
          /\ (Len(pg'.log[Len(pg'.log)].page) = PageLimit) => pg'.pc = "loop"]_vars
    /\ [](pg.pc = "done"
            => /\ Len(pg.log) = (pg.n \div PageLimit) + 1
               /\ pg.all = Server(pg.n)
               /\ (pg.n % PageLimit = 0) => pg.log[Len(pg.log)].page = <<>>)

\* the loop has ended on an empty third page, after two full ones
C17_Witness ==
    /\ pg.pc = "done" /\ pg.n = 2 * PageLimit
    /\ Len(pg.log) = 3 /\ pg.log[3].page = <<>> /\ pg.log[3].start = 2 * PageLimit
    /\ Len(pg.all) = 2 * PageLimit

====
